---------------------------- MODULE Spec2Model ----------------------------
(***************************************************************************)
(* A model of clinvarbitration/clinvar_by_codon.py: the header schema      *)
(* extractor (pull_vep_from_header), the consequence extractor             *)
(* (variant_consequences) and the aggregation and emission loop of main.   *)
(*                                                                         *)
(* Python strings are sequences of one-character strings, so that split,   *)
(* rstrip, lower, the substring test, str.join and json.dumps are computed *)
(* character by character, as the code computes them.                      *)
(***************************************************************************)
EXTENDS Integers, Sequences, FiniteSets, TLC

\* The longest stream of variant records the reader yields in a run.
MaxVariants == 3
\* The longest sequence of insertions whose every permutation is replayed.
MaxPermuted == 4

(***************************************************************************)
(* String literals of the source.                                          *)
(***************************************************************************)
FormatMarker == <<"F","o","r","m","a","t",":"," ">>
MissenseVariant ==
    <<"m","i","s","s","e","n","s","e","_","v","a","r","i","a","n","t">>
ConsequenceField == <<"c","o","n","s","e","q","u","e","n","c","e">>
EnspField == <<"e","n","s","p">>
ProteinPositionField ==
    <<"p","r","o","t","e","i","n","_","p","o","s","i","t","i","o","n">>
Quote == "\""
Pipe == "|"
Comma == ","
Colon == ":"
Plus == "+"
Backslash == "\\"
Newline == "\n"

(***************************************************************************)
(* str methods.                                                            *)
(***************************************************************************)
UpperCase ==
    <<"A","B","C","D","E","F","G","H","I","J","K","L","M",
      "N","O","P","Q","R","S","T","U","V","W","X","Y","Z">>
LowerCase ==
    <<"a","b","c","d","e","f","g","h","i","j","k","l","m",
      "n","o","p","q","r","s","t","u","v","w","x","y","z">>
DecimalDigits == <<"0","1","2","3","4","5","6","7","8","9">>

\* str.lower() on one character.
LowerChar(c) ==
    IF \E i \in 1..Len(UpperCase) : UpperCase[i] = c
    THEN LowerCase[CHOOSE i \in 1..Len(UpperCase) : UpperCase[i] = c]
    ELSE c

\* s.lower()
Lower(s) == [i \in 1..Len(s) |-> LowerChar(s[i])]

\* sub in s
Contains(s, sub) ==
    \E i \in 1..(Len(s) - Len(sub) + 1) : SubSeq(s, i, i + Len(sub) - 1) = sub

\* The indices of s at which sep occurs.
Occurrences(s, sep) ==
    {i \in 1..(Len(s) - Len(sep) + 1) :
        s[i] = sep[1] /\ SubSeq(s, i, i + Len(sep) - 1) = sep}

\* The scan of s.split(sep) from index start: the occurrences of sep are taken
\* left to right, without overlap.
RECURSIVE SplitFrom(_, _, _, _)
SplitFrom(s, sep, occurrences, start) ==
    LET later == {i \in occurrences : i >= start}
    IN  IF later = {} THEN <<SubSeq(s, start, Len(s))>>
        ELSE LET i == CHOOSE j \in later : \A k \in later : j <= k
             IN  <<SubSeq(s, start, i - 1)>>
                 \o SplitFrom(s, sep, occurrences, i + Len(sep))

\* s.split(sep): the pieces between the occurrences of sep.
Split(s, sep) == SplitFrom(s, sep, Occurrences(s, sep), 1)

\* s.rstrip(ch): every trailing ch removed.
RECURSIVE RStrip(_, _)
RStrip(s, ch) ==
    IF Len(s) > 0 /\ s[Len(s)] = ch
    THEN RStrip(SubSeq(s, 1, Len(s) - 1), ch)
    ELSE s

\* sep.join(parts)
RECURSIVE Join(_, _)
Join(parts, sep) ==
    IF Len(parts) = 0 THEN <<>>
    ELSE IF Len(parts) = 1 THEN parts[1]
    ELSE parts[1] \o sep \o Join(Tail(parts), sep)

\* str(n) for an int n.
RECURSIVE IntToStr(_)
IntToStr(n) ==
    IF n < 0 THEN <<"-">> \o IntToStr(0 - n)
    ELSE IF n < Len(DecimalDigits) THEN <<DecimalDigits[n + 1]>>
    ELSE IntToStr(n \div Len(DecimalDigits))
         \o <<DecimalDigits[(n % Len(DecimalDigits)) + 1]>>

\* An INFO value is an int or a str; the f-string formats it with str().
IntValue(n) == [type |-> "int", val |-> n]
StrValue(s) == [type |-> "str", val |-> s]
Format(v) == IF v.type = "int" THEN IntToStr(v.val) ELSE v.val


(***************************************************************************)
(* The inputs: the headers a VCF may carry and the records its reader may  *)
(* yield.  A header is the sequence of elements of vcf.header_iter(); a    *)
(* variant is its INFO mapping.  Every schema names the consequence field, *)
(* as the CSQ format of VEP does; one names no protein position.           *)
(***************************************************************************)
HeaderElement(type, id, description) ==
    [HeaderType |-> type, ID |-> id, Description |-> description]

\* "Consequence annotations from Ensembl VEP. Format: Allele|Consequence|ENSP|Protein_position" with its closing quote
DescriptionVEP ==
    <<"C","o","n","s","e","q","u","e","n","c","e"," ","a","n","n","o","t","a",
      "t","i","o","n","s"," ","f","r","o","m"," ","E","n","s","e","m","b","l",
      " ","V","E","P","."," ","F","o","r","m","a","t",":"," ","A","l","l","e",
      "l","e","|","C","o","n","s","e","q","u","e","n","c","e","|","E","N","S",
      "P","|","P","r","o","t","e","i","n","_","p","o","s","i","t","i","o","n",
      "\"">>
\* "Format: Consequence|Allele|Protein_position|ENSP": another field order, no quote
DescriptionReordered ==
    <<"F","o","r","m","a","t",":"," ","C","o","n","s","e","q","u","e","n","c",
      "e","|","A","l","l","e","l","e","|","P","r","o","t","e","i","n","_","p",
      "o","s","i","t","i","o","n","|","E","N","S","P">>
\* "VEP Format: v110. Format: Allele|Consequence|ENSP" in quotes: the marker
\* occurs twice and the schema names no protein position
DescriptionNoPosition ==
    <<"\"","V","E","P"," ","F","o","r","m","a","t",":"," ","v","1","1","0",
      "."," ","F","o","r","m","a","t",":"," ","A","l","l","e","l","e","|","C",
      "o","n","s","e","q","u","e","n","c","e","|","E","N","S","P","\"">>
\* "ClinVar allele" : a description of another INFO field
DescriptionOther ==
    <<"C","l","i","n","V","a","r"," ","a","l","l","e","l","e">>

Headers ==
    { <<HeaderElement("FILTER", "PASS", DescriptionOther),
        HeaderElement("FORMAT", "CSQ", DescriptionReordered),
        HeaderElement("INFO", "allele_id", DescriptionOther),
        HeaderElement("INFO", "CSQ", DescriptionVEP),
        HeaderElement("INFO", "gold_stars", DescriptionOther)>>,
      <<HeaderElement("INFO", "CSQ", DescriptionReordered),
        HeaderElement("INFO", "CSQ", DescriptionVEP)>>,
      <<HeaderElement("INFO", "allele_id", DescriptionOther),
        HeaderElement("INFO", "CSQ", DescriptionNoPosition)>>,
      <<HeaderElement("INFO", "allele_id", DescriptionOther),
        HeaderElement("FORMAT", "CSQ", DescriptionVEP)>>,
      <<>> }

Allele == <<"x">>
ENSP1 == <<"E","N","S","P","1">>
ENSP2 == <<"E","N","S","P","2">>
Pos45 == <<"4","5">>
Pos9 == <<"9">>
SynonymousVariant ==
    <<"s","y","n","o","n","y","m","o","u","s","_","v","a","r","i","a","n","t">>
StopGained == <<"s","t","o","p","_","g","a","i","n","e","d">>
MissenseSplice ==
    MissenseVariant \o <<"&">> \o
    <<"s","p","l","i","c","e","_","r","e","g","i","o","n","_","v","a","r","i",
      "a","n","t">>

\* One transcript consequence of a CSQ block, and a block of them.
Token(values) == Join(values, <<Pipe>>)
Block(tokens) == StrValue(Join(tokens, <<Comma>>))

TokMissense1 == Token(<<Allele, MissenseVariant, ENSP1, Pos45>>)
TokMissense2 == Token(<<Allele, MissenseVariant, ENSP2, Pos9>>)
TokSplice2 == Token(<<Allele, MissenseSplice, ENSP2, Pos9>>)
TokStop2 == Token(<<Allele, StopGained, ENSP2, Pos9>>)
TokSynonymous1 == Token(<<Allele, SynonymousVariant, ENSP1, Pos45>>)
\* too few and too many values for a schema of four names
TokShort == Token(<<Allele, MissenseVariant, ENSP1>>)
TokLong == Token(<<Allele, StopGained, ENSP2, Pos9, Allele>>)
\* the field order of DescriptionReordered
TokReordered == Token(<<MissenseVariant, Allele, Pos45, ENSP1>>)

Variants ==
    { [INFO |-> [allele_id |-> IntValue(10), gold_stars |-> IntValue(2),
                 CSQ |-> Block(<<TokMissense1>>)]],
      [INFO |-> [allele_id |-> IntValue(11), gold_stars |-> IntValue(1),
                 CSQ |-> Block(<<TokMissense1, TokStop2>>)]],
      [INFO |-> [allele_id |-> IntValue(10), gold_stars |-> IntValue(2),
                 CSQ |-> Block(<<TokSplice2, TokMissense1, TokMissense1>>)]],
      [INFO |-> [allele_id |-> StrValue(<<"1","1">>), gold_stars |-> IntValue(1),
                 CSQ |-> Block(<<TokSynonymous1, TokMissense2>>)]],
      [INFO |-> [allele_id |-> IntValue(12), gold_stars |-> IntValue(0),
                 CSQ |-> Block(<<TokReordered, TokReordered>>)]],
      [INFO |-> [allele_id |-> IntValue(13), gold_stars |-> IntValue(3),
                 CSQ |-> Block(<<TokMissense1, TokShort>>)]],
      [INFO |-> [allele_id |-> IntValue(13), gold_stars |-> IntValue(3),
                 CSQ |-> Block(<<TokLong, TokMissense2>>)]],
      [INFO |-> [allele_id |-> IntValue(13), gold_stars |-> IntValue(3),
                 CSQ |-> Block(<<TokShort>>)]],
      [INFO |-> [gold_stars |-> IntValue(2), CSQ |-> Block(<<TokMissense1>>)]],
      [INFO |-> [allele_id |-> IntValue(10), CSQ |-> Block(<<TokMissense1>>)]],
      [INFO |-> [allele_id |-> IntValue(10), gold_stars |-> IntValue(2)]] }

(***************************************************************************)
(* The functions of the source.  A call returns [exc, value]: exc is       *)
(* "none" and value the result, or exc names the exception raised.         *)
(***************************************************************************)
Return(v) == [exc |-> "none", value |-> v]
Raise(e) == [exc |-> e, value |-> <<>>]

\* A slip: the names are kept in the case of the header.
SchemaOfDescriptionCased(description) ==
    LET pieces == Split(description, FormatMarker)
    IN  Split(RStrip(pieces[Len(pieces)], Quote), <<Pipe>>)

\* element['Description'].split('Format: ')[-1].rstrip('"').split('|'), lower-cased
SchemaOfDescription(description) ==
    LET pieces == Split(description, FormatMarker)
        fields == Split(RStrip(pieces[Len(pieces)], Quote), <<Pipe>>)
    IN  [i \in 1..Len(fields) |-> Lower(fields[i])]

\* A slip: the element is matched on its ID alone.
IsCsqElementByID(element) == element.ID = "CSQ"

\* element['HeaderType'] == 'INFO' and element['ID'] == 'CSQ'
IsCsqElement(element) == element.HeaderType = "INFO" /\ element.ID = "CSQ"

\* pull_vep_from_header: the schema of the first INFO/CSQ element, or IndexError
pull_vep_from_header(vcf_header) ==
    IF \E i \in 1..Len(vcf_header) : IsCsqElement(vcf_header[i])
    THEN LET first == CHOOSE i \in 1..Len(vcf_header) :
                          /\ IsCsqElement(vcf_header[i])
                          /\ \A j \in 1..(i - 1) : ~IsCsqElement(vcf_header[j])
         IN  Return(SchemaOfDescription(vcf_header[first].Description))
    ELSE Raise("IndexError")

\* dict(zip(names, values)) for sequences of one length: a later duplicate name wins
DictOfZip(names, values) ==
    [n \in {names[i] : i \in 1..Len(names)} |->
        values[CHOOSE i \in 1..Len(names) :
                   names[i] = n /\ \A j \in (i + 1)..Len(names) : names[j] # n]]

\* A slip: the consequence type is compared for equality.
IsMissenseExactly(consequence) == consequence = MissenseVariant

\* 'missense_variant' in csq_dict['consequence']
IsMissense(consequence) == Contains(consequence, MissenseVariant)

\* The loop of variant_consequences over tokens[k..], consequences so far in acc.
RECURSIVE ConsequencesFrom(_, _, _, _)
ConsequencesFrom(tokens, k, csq_header, acc) ==
    IF k > Len(tokens) THEN Return(acc)
    ELSE LET values == Split(tokens[k], <<Pipe>>)
         IN  IF Len(values) # Len(csq_header) THEN Raise("ValueError")
             ELSE LET csq_dict == DictOfZip(csq_header, values)
                  IN  IF ConsequenceField \notin DOMAIN csq_dict
                      THEN Raise("KeyError")
                      ELSE IF IsMissense(csq_dict[ConsequenceField])
                      THEN ConsequencesFrom(tokens, k + 1, csq_header,
                                            Append(acc, csq_dict))
                      ELSE ConsequencesFrom(tokens, k + 1, csq_header, acc)

\* A slip: zip without strict=True, which stops at the shorter of the two.
RECURSIVE ConsequencesFromUnchecked(_, _, _, _)
ConsequencesFromUnchecked(tokens, k, csq_header, acc) ==
    IF k > Len(tokens) THEN Return(acc)
    ELSE LET values == Split(tokens[k], <<Pipe>>)
             m == IF Len(values) < Len(csq_header) THEN Len(values)
                  ELSE Len(csq_header)
             csq_dict == DictOfZip(SubSeq(csq_header, 1, m), SubSeq(values, 1, m))
         IN  IF ConsequenceField \notin DOMAIN csq_dict
             THEN Raise("KeyError")
             ELSE IF IsMissense(csq_dict[ConsequenceField])
             THEN ConsequencesFromUnchecked(tokens, k + 1, csq_header,
                                            Append(acc, csq_dict))
             ELSE ConsequencesFromUnchecked(tokens, k + 1, csq_header, acc)
variant_consequences_unchecked(v, csq_header) ==
    IF "CSQ" \notin DOMAIN v.INFO THEN Raise("KeyError")
    ELSE ConsequencesFromUnchecked(Split(v.INFO.CSQ.val, <<Comma>>), 1,
                                   csq_header, <<>>)

\* A slip: a consequence equal to one already kept is dropped.
RECURSIVE Deduplicated(_)
Deduplicated(seq) ==
    IF Len(seq) = 0 THEN <<>>
    ELSE LET front == Deduplicated(SubSeq(seq, 1, Len(seq) - 1))
         IN  IF \E i \in 1..Len(front) : front[i] = seq[Len(seq)]
             THEN front ELSE Append(front, seq[Len(seq)])
variant_consequences_deduplicated(v, csq_header) ==
    IF "CSQ" \notin DOMAIN v.INFO THEN Raise("KeyError")
    ELSE LET r == ConsequencesFrom(Split(v.INFO.CSQ.val, <<Comma>>), 1,
                                   csq_header, <<>>)
         IN  IF r.exc = "none" THEN Return(Deduplicated(r.value)) ELSE r

\* variant_consequences(variant, csq_header)
variant_consequences(v, csq_header) ==
    IF "CSQ" \notin DOMAIN v.INFO THEN Raise("KeyError")
    ELSE ConsequencesFrom(Split(v.INFO.CSQ.val, <<Comma>>), 1, csq_header, <<>>)

\* A slip: clinvar_dict[protein_key] = {clinvar_key}, the last token replacing the set.
DictAssign(dict, protein_key, clinvar_key) ==
    IF \E i \in 1..Len(dict) : dict[i].key = protein_key
    THEN [i \in 1..Len(dict) |->
            IF dict[i].key = protein_key
            THEN [dict[i] EXCEPT !.value = {clinvar_key}]
            ELSE dict[i]]
    ELSE Append(dict, [key |-> protein_key, value |-> {clinvar_key}])

\* A slip: an update moves the key to the end of the dict.
DictMoveToEnd(dict, protein_key, clinvar_key) ==
    IF \E i \in 1..Len(dict) : dict[i].key = protein_key
    THEN LET i == CHOOSE j \in 1..Len(dict) : dict[j].key = protein_key
         IN  Append(SubSeq(dict, 1, i - 1) \o SubSeq(dict, i + 1, Len(dict)),
                    [dict[i] EXCEPT !.value = @ \cup {clinvar_key}])
    ELSE Append(dict, [key |-> protein_key, value |-> {clinvar_key}])

\* A slip: a list of items appended to, with no lookup of the key.
DictAppend(dict, protein_key, clinvar_key) ==
    Append(dict, [key |-> protein_key, value |-> {clinvar_key}])

\* clinvar_dict[protein_key].add(clinvar_key) on an insertion-ordered dict of
\* sets, held as the sequence of its items
DictAdd(dict, protein_key, clinvar_key) ==
    IF \E i \in 1..Len(dict) : dict[i].key = protein_key
    THEN [i \in 1..Len(dict) |->
            IF dict[i].key = protein_key
            THEN [dict[i] EXCEPT !.value = @ \cup {clinvar_key}]
            ELSE dict[i]]
    ELSE Append(dict, [key |-> protein_key, value |-> {clinvar_key}])

\* json.dumps of a str: quotes and backslashes escaped, in double quotes
RECURSIVE JsonEscape(_)
JsonEscape(s) ==
    IF Len(s) = 0 THEN <<>>
    ELSE (IF s[1] = Quote \/ s[1] = Backslash THEN <<Backslash, s[1]>> ELSE <<s[1]>>)
         \o JsonEscape(Tail(s))
JsonString(s) == <<Quote>> \o JsonEscape(s) \o <<Quote>>

NewkeyName == <<"n","e","w","k","e","y">>
ClinvarAllelesName ==
    <<"c","l","i","n","v","a","r","_","a","l","l","e","l","e","s">>

\* json.dumps(new_dict)
json_dumps(new_dict) ==
    <<"{">> \o JsonString(NewkeyName) \o <<Colon, " ">>
    \o JsonString(new_dict.newkey) \o <<Comma, " ">>
    \o JsonString(ClinvarAllelesName) \o <<Colon, " ">>
    \o JsonString(new_dict.clinvar_alleles) \o <<"}">>

\* The orders in which iterating a set may yield its elements.
Orderings(S) ==
    {seq \in [1..Cardinality(S) -> S] : \A x \in S : \E i \in DOMAIN seq : seq[i] = x}

(***************************************************************************)
(* The state of a run of main.                                             *)
(***************************************************************************)
VARIABLES
    vcf_header,    \* the header elements of the VCF opened as vcf_reader
    pc,            \* the statement of main about to run
    exc,           \* the exception that ended the run, or "none"
    header_csq,    \* the field names pulled from the header
    dict_created,  \* whether clinvar_dict exists yet
    clinvar_dict,  \* the items of the defaultdict(set), in insertion order
    seen,          \* the variants the reader has yielded so far, in order
    clinvar_key,   \* the clinical key of the variant of the current iteration
    pending,       \* the consequences of that variant the inner loop has not reached
    fed,           \* every <<protein_key, clinvar_key>> added so far, in order
    file_opened,   \* whether <output_root>.json has been opened for writing
    lines,         \* the lines written to it
    emitted,       \* every new_dict built so far, in order
    next_item,     \* the position of the iteration over clinvar_dict.items()
    table_written  \* whether <output_root>.ht has been written

vars ==
    <<vcf_header, pc, exc, header_csq, dict_created, clinvar_dict, seen,
      clinvar_key, pending, fed, file_opened, lines, emitted, next_item,
      table_written>>

\* The variant of the current iteration of the loop.
variant == seen[Len(seen)]

Init ==
    /\ vcf_header \in Headers
    /\ pc = "pull_header"
    /\ exc = "none"
    /\ header_csq = <<>>
    /\ dict_created = FALSE
    /\ clinvar_dict = <<>>
    /\ seen = <<>>
    /\ clinvar_key = <<>>
    /\ pending = <<>>
    /\ fed = <<>>
    /\ file_opened = FALSE
    /\ lines = <<>>
    /\ emitted = <<>>
    /\ next_item = 1
    /\ table_written = FALSE

\* An uncaught exception ends the run.
Abort(e) ==
    /\ pc' = "aborted"
    /\ exc' = e

\* header_csq = pull_vep_from_header(vcf_reader)
PullHeader ==
    /\ pc = "pull_header"
    /\ LET r == pull_vep_from_header(vcf_header)
       IN  IF r.exc = "none"
           THEN /\ header_csq' = r.value
                /\ pc' = "create_dict"
                /\ UNCHANGED exc
           ELSE /\ Abort(r.exc)
                /\ UNCHANGED header_csq
    /\ UNCHANGED <<vcf_header, dict_created, clinvar_dict, seen, clinvar_key,
                   pending, fed, file_opened, lines, emitted, next_item,
                   table_written>>

\* A slip: the output file is opened before the stream is read.
CreateDictAndOpenJson ==
    /\ pc = "create_dict"
    /\ dict_created' = TRUE
    /\ clinvar_dict' = <<>>
    /\ file_opened' = TRUE
    /\ pc' = "for_variant"
    /\ UNCHANGED <<vcf_header, exc, header_csq, seen, clinvar_key, pending, fed,
                   lines, emitted, next_item, table_written>>

\* clinvar_dict = defaultdict(set)
CreateDict ==
    /\ pc = "create_dict"
    /\ dict_created' = TRUE
    /\ clinvar_dict' = <<>>
    /\ pc' = "for_variant"
    /\ UNCHANGED <<vcf_header, exc, header_csq, seen, clinvar_key, pending, fed,
                   file_opened, lines, emitted, next_item, table_written>>

\* for variant in vcf_reader: the reader yields its next record
NextVariant ==
    /\ pc = "for_variant"
    /\ Len(seen) < MaxVariants
    /\ \E v \in Variants : seen' = Append(seen, v)
    /\ pc' = "clinvar_key"
    /\ UNCHANGED <<vcf_header, exc, header_csq, dict_created, clinvar_dict,
                   clinvar_key, pending, fed, file_opened, lines, emitted,
                   next_item, table_written>>

\* for variant in vcf_reader: the reader is exhausted
EndOfStream ==
    /\ pc = "for_variant"
    /\ pc' = "open_json"
    /\ UNCHANGED <<vcf_header, exc, header_csq, dict_created, clinvar_dict, seen,
                   clinvar_key, pending, fed, file_opened, lines, emitted,
                   next_item, table_written>>

\* clinvar_key = f"{variant.INFO['allele_id']}:{variant.INFO['gold_stars']}"
ClinvarKey ==
    /\ pc = "clinvar_key"
    /\ IF "allele_id" \in DOMAIN variant.INFO /\ "gold_stars" \in DOMAIN variant.INFO
       THEN /\ clinvar_key' = Format(variant.INFO.allele_id) \o <<Colon>>
                              \o Format(variant.INFO.gold_stars)
            /\ pc' = "consequences"
            /\ UNCHANGED exc
       ELSE /\ Abort("KeyError")
            /\ UNCHANGED clinvar_key
    /\ UNCHANGED <<vcf_header, header_csq, dict_created, clinvar_dict, seen,
                   pending, fed, file_opened, lines, emitted, next_item,
                   table_written>>

\* for csq_dict in variant_consequences(variant, header_csq): the call
Consequences ==
    /\ pc = "consequences"
    /\ LET r == variant_consequences(variant, header_csq)
       IN  IF r.exc = "none"
           THEN /\ pending' = r.value
                /\ pc' = IF r.value = <<>> THEN "for_variant" ELSE "add"
                /\ UNCHANGED exc
           ELSE /\ Abort(r.exc)
                /\ UNCHANGED pending
    /\ UNCHANGED <<vcf_header, header_csq, dict_created, clinvar_dict, seen,
                   clinvar_key, fed, file_opened, lines, emitted, next_item,
                   table_written>>

\* csq_dict has the fields the protein key is made of
HasProteinKey(csq_dict) ==
    EnspField \in DOMAIN csq_dict /\ ProteinPositionField \in DOMAIN csq_dict

\* A slip: the key is the protein alone, without the position.
ProteinKeyWithoutPosition(csq_dict) == csq_dict[EnspField]

\* f"{csq_dict['ensp']}:{csq_dict['protein_position']}"
ProteinKey(csq_dict) ==
    csq_dict[EnspField] \o <<Colon>> \o csq_dict[ProteinPositionField]

\* one iteration of the inner loop: clinvar_dict[protein_key].add(clinvar_key)
AddToDict ==
    /\ pc = "add"
    /\ LET csq_dict == Head(pending)
       IN  IF HasProteinKey(csq_dict)
           THEN /\ clinvar_dict' =
                       DictAdd(clinvar_dict, ProteinKey(csq_dict), clinvar_key)
                /\ fed' = Append(fed, <<ProteinKey(csq_dict), clinvar_key>>)
                /\ pending' = Tail(pending)
                /\ pc' = IF Tail(pending) = <<>> THEN "for_variant" ELSE "add"
                /\ UNCHANGED exc
           ELSE /\ Abort("KeyError")
                /\ UNCHANGED <<clinvar_dict, fed, pending>>
    /\ UNCHANGED <<vcf_header, header_csq, dict_created, seen, clinvar_key,
                   file_opened, lines, emitted, next_item, table_written>>

\* with open(json_out_path, 'w') as f: the file is created or truncated
OpenJson ==
    /\ pc = "open_json"
    /\ file_opened' = TRUE
    /\ lines' = <<>>
    /\ next_item' = 1
    /\ pc' = "write"
    /\ UNCHANGED <<vcf_header, exc, header_csq, dict_created, clinvar_dict, seen,
                   clinvar_key, pending, fed, emitted, table_written>>

\* one iteration over clinvar_dict.items(): the set is joined in the order its
\* iteration yields, and the record is written as one line
WriteRecord ==
    /\ pc = "write"
    /\ next_item <= Len(clinvar_dict)
    /\ \E order \in Orderings(clinvar_dict[next_item].value) :
          LET new_dict == [newkey |-> clinvar_dict[next_item].key,
                           clinvar_alleles |-> Join(order, <<Plus>>)]
          IN  /\ emitted' = Append(emitted, new_dict)
              /\ lines' = Append(lines, json_dumps(new_dict) \o <<Newline>>)
    /\ next_item' = next_item + 1
    /\ UNCHANGED <<vcf_header, pc, exc, header_csq, dict_created, clinvar_dict,
                   seen, clinvar_key, pending, fed, file_opened, table_written>>

\* the items are exhausted: the file is closed and its path logged
CloseJson ==
    /\ pc = "write"
    /\ next_item > Len(clinvar_dict)
    /\ pc' = "write_table"
    /\ UNCHANGED <<vcf_header, exc, header_csq, dict_created, clinvar_dict, seen,
                   clinvar_key, pending, fed, file_opened, lines, emitted,
                   next_item, table_written>>

\* the file is imported as a table keyed by newkey and written to <output_root>.ht
WriteTable ==
    /\ pc = "write_table"
    /\ table_written' = TRUE
    /\ pc' = "done"
    /\ UNCHANGED <<vcf_header, exc, header_csq, dict_created, clinvar_dict, seen,
                   clinvar_key, pending, fed, file_opened, lines, emitted,
                   next_item>>

Next ==
    \/ PullHeader
    \/ CreateDict
    \/ NextVariant
    \/ EndOfStream
    \/ ClinvarKey
    \/ Consequences
    \/ AddToDict
    \/ OpenJson
    \/ WriteRecord
    \/ CloseJson
    \/ WriteTable

Spec == Init /\ [][Next]_vars

(***************************************************************************)
(* Vocabulary of the properties.                                           *)
(***************************************************************************)
\* The run is past the streaming loop: the reader was exhausted.
StreamExhausted == pc \in {"open_json", "write", "write_table", "done"}

\* The elements of a sequence.
Range(seq) == {seq[i] : i \in 1..Len(seq)}

\* A dict as a mapping, whatever the order of its items.
KeysOf(dict) == {dict[i].key : i \in 1..Len(dict)}
ItemsOf(dict) == {<<dict[i].key, dict[i].value>> : i \in 1..Len(dict)}
KeysDistinct(dict) ==
    \A i, j \in 1..Len(dict) : dict[i].key = dict[j].key => i = j

\* The number of tokens a dict holds, each counted under each key it is under.
RECURSIVE TokenCount(_)
TokenCount(dict) ==
    IF Len(dict) = 0 THEN 0
    ELSE Cardinality(dict[1].value) + TokenCount(Tail(dict))

\* The clinical key "{allele_id}:{gold_stars}" of a variant that has both fields.
ClinicalKeyOf(v) ==
    Format(v.INFO.allele_id) \o <<Colon>> \o Format(v.INFO.gold_stars)

\* The <<ProteinKey, ClinicalKey>> pairs of the retained records of the variants
\* read (the loop has finished, so every variant read was decoded).
RetainedPairs ==
    UNION { { <<r[EnspField] \o <<Colon>> \o r[ProteinPositionField],
                ClinicalKeyOf(seen[i])>> :
                r \in Range(variant_consequences(seen[i], header_csq).value) } :
            i \in 1..Len(seen) }

(***************************************************************************)
(* C1.  When the streaming loop has finished, the aggregation map has a    *)
(* key K exactly when some variant read has a retained record with protein *)
(* key K, and the set under K is exactly the set of clinical keys of the   *)
(* variants with such a record: nothing missing, nothing extra, no empty   *)
(* set, no key twice.                                                      *)
(***************************************************************************)
C1_MapIsExactlyTheRetainedPairs ==
    StreamExhausted =>
        /\ KeysOf(clinvar_dict) = {p[1] : p \in RetainedPairs}
        /\ KeysDistinct(clinvar_dict)
        /\ \A i \in 1..Len(clinvar_dict) :
              /\ clinvar_dict[i].value # {}
              /\ clinvar_dict[i].value =
                    {p[2] : p \in {q \in RetainedPairs : q[1] = clinvar_dict[i].key}}

\* Three variants were folded into two keys, one of them with two clinical keys.
C1_Witness ==
    /\ pc = "done"
    /\ Len(seen) = MaxVariants
    /\ Len(clinvar_dict) = 2
    /\ \E i \in 1..Len(clinvar_dict) : Cardinality(clinvar_dict[i].value) = 2

(***************************************************************************)
(* C2.  Insertion is idempotent.  In every state the keys of the map are   *)
(* distinct and it holds one token per distinct pair inserted, however     *)
(* often the pair was inserted; and an insertion of a pair inserted before *)
(* leaves the whole map unchanged.                                         *)
(***************************************************************************)
C2_IdempotentInsertion ==
    /\ [](KeysDistinct(clinvar_dict)
          /\ TokenCount(clinvar_dict) = Cardinality(Range(fed)))
    /\ [][(Len(fed') = Len(fed) + 1 /\ fed'[Len(fed')] \in Range(fed))
            => clinvar_dict' = clinvar_dict]_vars

\* One pair was inserted twice and its set has one token.
C2_Witness ==
    /\ Len(fed) = 2
    /\ fed[1] = fed[2]
    /\ Len(clinvar_dict) = 1
    /\ Cardinality(clinvar_dict[1].value) = 1

\* The fold of the aggregator over a sequence of pairs, from the empty dict.
RECURSIVE Aggregate(_)
Aggregate(pairs) ==
    IF Len(pairs) = 0 THEN <<>>
    ELSE LET n == Len(pairs)
         IN  DictAdd(Aggregate(SubSeq(pairs, 1, n - 1)), pairs[n][1], pairs[n][2])

(***************************************************************************)
(* C3.  Aggregation does not depend on the order of its input: the pairs   *)
(* inserted so far, fed in any permutation of their order, give the map    *)
(* the run has built (the same keys, the same set under each key).         *)
(***************************************************************************)
C3_OrderIndependence ==
    Len(fed) <= MaxPermuted =>
        \A perm \in Permutations(1..Len(fed)) :
            ItemsOf(Aggregate([i \in 1..Len(fed) |-> fed[perm[i]]]))
                = ItemsOf(clinvar_dict)

\* Insertions under two keys, one of them with two tokens, so that orders differ.
C3_Witness ==
    /\ Len(fed) = MaxPermuted
    /\ Len(clinvar_dict) = 2
    /\ \E i \in 1..Len(clinvar_dict) : Cardinality(clinvar_dict[i].value) = 2

(***************************************************************************)
(* The tokens of a CSQ block read against the schema, by counting and      *)
(* indexing rather than by the decoder.                                    *)
(***************************************************************************)
HasBlock(v) == "CSQ" \in DOMAIN v.INFO
HasClinicalFields(v) ==
    "allele_id" \in DOMAIN v.INFO /\ "gold_stars" \in DOMAIN v.INFO
TokensOf(v) == Split(v.INFO.CSQ.val, <<Comma>>)

\* The token has as many pipe-delimited values as the schema has names.
MatchesSchema(token) ==
    Cardinality({j \in 1..Len(token) : token[j] = Pipe}) + 1 = Len(header_csq)
HasMismatch(v) ==
    HasBlock(v) /\ \E token \in Range(TokensOf(v)) : ~MatchesSchema(token)

\* The value of a token at the position of a schema name.
SchemaNames == Range(header_csq)
FieldIndex(name) == CHOOSE i \in 1..Len(header_csq) : header_csq[i] = name
FieldOf(token, name) == Split(token, <<Pipe>>)[FieldIndex(name)]

\* The consequence types the filter must keep; every other type of the input
\* ("synonymous_variant", "stop_gained", "x") lacks the substring "missense_variant".
MustContribute(type) == type \in {MissenseVariant, MissenseSplice}

\* The pairs the tokens[k..] of a decoded variant must contribute, in order.
RECURSIVE ContributionsFrom(_, _, _)
ContributionsFrom(tokens, k, clinical) ==
    IF k > Len(tokens) THEN <<>>
    ELSE LET values == Split(tokens[k], <<Pipe>>)
         IN  (IF MustContribute(values[FieldIndex(ConsequenceField)])
              THEN << <<values[FieldIndex(EnspField)] \o <<Colon>>
                          \o values[FieldIndex(ProteinPositionField)], clinical>> >>
              ELSE <<>>)
             \o ContributionsFrom(tokens, k + 1, clinical)
Contributions(v) == ContributionsFrom(TokensOf(v), 1, ClinicalKeyOf(v))

\* The contributions of the first n variants read.
RECURSIVE ContributionsUpTo(_)
ContributionsUpTo(n) ==
    IF n = 0 THEN <<>> ELSE ContributionsUpTo(n - 1) \o Contributions(seen[n])

\* The number of variants whose iteration of the loop has completed.
Folded ==
    IF pc = "for_variant" \/ StreamExhausted THEN Len(seen)
    ELSE IF Len(seen) = 0 THEN 0 ELSE Len(seen) - 1

(***************************************************************************)
(* C4.  The filter.  The insertions made are, in order, exactly those of   *)
(* the records whose type is "missense_variant" or                         *)
(* "missense_variant&splice_region_variant" in the variants whose          *)
(* iteration has completed (and, inside an iteration, the first of that    *)
(* variant); a record of any other type, none of which has the substring  *)
(* "missense_variant", inserts nothing; and the map holds a token under a  *)
(* key only if it was inserted.                                            *)
(***************************************************************************)
C4_FilterCorrectness ==
    /\ IF {ConsequenceField, EnspField, ProteinPositionField} \subseteq SchemaNames
       THEN IF pc = "add"
            THEN LET all == Contributions(variant)
                 IN  fed = ContributionsUpTo(Folded)
                           \o SubSeq(all, 1, Len(all) - Len(pending))
            ELSE fed = ContributionsUpTo(Folded)
       ELSE fed = <<>>
    /\ \A i \in 1..Len(clinvar_dict) : \A token \in clinvar_dict[i].value :
          <<clinvar_dict[i].key, token>> \in Range(fed)

\* A variant with a missense&splice record, two missense records and, in the
\* same run, records that are not missense has been folded.
C4_Witness ==
    /\ pc = "for_variant"
    /\ Len(fed) = 4
    /\ \E i \in 1..Len(seen) :
          \E k \in 1..Len(TokensOf(seen[i])) :
              FieldOf(TokensOf(seen[i])[k], ConsequenceField) = MissenseSplice
    /\ \E i \in 1..Len(seen) :
          \E k \in 1..Len(TokensOf(seen[i])) :
              FieldOf(TokensOf(seen[i])[k], ConsequenceField) = StopGained

(***************************************************************************)
(* C5.  Mismatch rejection.  A variant whose block has a token, missense   *)
(* or not and wherever in the block, with a number of values other than    *)
(* the number of schema names is the last variant read: its iteration      *)
(* never completes, it inserts nothing, and the run ends there, with       *)
(* ValueError (the MalformedConsequence of the specification) when the     *)
(* variant has the fields of its clinical key, so that decoding is reached.*)
(***************************************************************************)
C5_MismatchRejection ==
    pc # "pull_header" /\ exc # "IndexError" =>
        \A i \in 1..Len(seen) :
            HasMismatch(seen[i]) =>
                /\ i = Len(seen)
                /\ pc \in {"clinvar_key", "consequences", "aborted"}
                /\ Folded = i - 1
                /\ pc = "aborted" =>
                      /\ exc = IF HasClinicalFields(seen[i])
                               THEN "ValueError" ELSE "KeyError"
                      /\ ~file_opened

\* The run ended on a mismatch in the second token of a block whose first
\* token is missense, after a variant that was folded.
C5_Witness ==
    /\ pc = "aborted"
    /\ exc = "ValueError"
    /\ Len(seen) = 2
    /\ fed # <<>>
    /\ Len(TokensOf(variant)) = 2
    /\ MatchesSchema(TokensOf(variant)[1])
    /\ ~MatchesSchema(TokensOf(variant)[2])

(***************************************************************************)
(* C6.  A header with no element of category INFO and identifier CSQ ends  *)
(* the run with IndexError (the SchemaNotFound of the specification)       *)
(* before any variant is read, before the map is created and before any    *)
(* output is written.                                                      *)
(***************************************************************************)
C6_SchemaNotFound ==
    (\A i \in 1..Len(vcf_header) :
        ~(vcf_header[i].HeaderType = "INFO" /\ vcf_header[i].ID = "CSQ"))
    => /\ pc \in {"pull_header", "aborted"}
       /\ pc = "aborted" => exc = "IndexError"
       /\ seen = <<>>
       /\ ~dict_created
       /\ ~file_opened
       /\ lines = <<>>
       /\ emitted = <<>>
       /\ ~table_written

\* The run ended on a header whose only CSQ element is a FORMAT element.
C6_Witness ==
    /\ pc = "aborted"
    /\ exc = "IndexError"
    /\ \E i \in 1..Len(vcf_header) : vcf_header[i].ID = "CSQ"

(***************************************************************************)
(* C7.  Header extraction.  With d the description of the first INFO/CSQ   *)
(* element and m the start of the last "Format: " in it, the schema pulled *)
(* is d after the marker without its trailing quotes, cut at the pipes,    *)
(* in order: its names joined by pipes are that text letter for letter up  *)
(* to case, no name holds a pipe or an upper-case letter; and the          *)
(* description of the example gives allele, consequence, ensp,             *)
(* protein_position.                                                       *)
(***************************************************************************)
C7_HeaderExtraction ==
    pc \notin {"pull_header", "aborted"} \/ (pc = "aborted" /\ exc # "IndexError") =>
        LET first == CHOOSE i \in 1..Len(vcf_header) :
                        /\ vcf_header[i].HeaderType = "INFO"
                        /\ vcf_header[i].ID = "CSQ"
                        /\ \A j \in 1..(i - 1) :
                              ~(vcf_header[j].HeaderType = "INFO"
                                /\ vcf_header[j].ID = "CSQ")
            d == vcf_header[first].Description
            IsMarkerAt(i) == SubSeq(d, i, i + Len(FormatMarker) - 1) = FormatMarker
            starts == 1..(Len(d) - Len(FormatMarker) + 1)
            m == CHOOSE i \in starts :
                    IsMarkerAt(i) /\ \A j \in starts : j > i => ~IsMarkerAt(j)
            last == CHOOSE i \in 0..Len(d) :
                        /\ i = 0 \/ d[i] # Quote
                        /\ \A j \in (i + 1)..Len(d) : d[j] = Quote
            text == SubSeq(d, m + Len(FormatMarker), last)
            joined == Join(header_csq, <<Pipe>>)
        IN  /\ Len(joined) = Len(text)
            /\ \A i \in 1..Len(text) :
                  \/ joined[i] = text[i] /\ text[i] \notin Range(UpperCase)
                  \/ \E c \in 1..Len(UpperCase) :
                        text[i] = UpperCase[c] /\ joined[i] = LowerCase[c]
            /\ \A n \in 1..Len(header_csq) : Pipe \notin Range(header_csq[n])
            /\ d = DescriptionVEP =>
                  header_csq = <<<<"a","l","l","e","l","e">>, ConsequenceField,
                                 EnspField, ProteinPositionField>>

\* The schema was pulled from the description of the example.
C7_Witness ==
    /\ pc = "create_dict"
    /\ Len(header_csq) = 4
    /\ \E i \in 1..Len(vcf_header) :
          /\ vcf_header[i].HeaderType = "INFO"
          /\ vcf_header[i].ID = "CSQ"
          /\ vcf_header[i].Description = DescriptionVEP
          /\ \A j \in 1..(i - 1) : vcf_header[j].ID # "CSQ"
                                   \/ vcf_header[j].HeaderType # "INFO"

\* The protein keys of a sequence of pairs, each once, in the order of their
\* first appearance.
RECURSIVE FirstCreated(_)
FirstCreated(pairs) ==
    IF Len(pairs) = 0 THEN <<>>
    ELSE LET front == FirstCreated(SubSeq(pairs, 1, Len(pairs) - 1))
             key == pairs[Len(pairs)][1]
         IN  IF key \in Range(front) THEN front ELSE Append(front, key)

(***************************************************************************)
(* C8.  Finalization and emission.  Nothing is emitted and the file is not *)
(* opened before the stream is exhausted.  The i-th record emitted has as  *)
(* newkey the i-th protein key in the order the keys were first inserted,  *)
(* and as clinvar_alleles the tokens of that key, each once, joined by     *)
(* "+"; the i-th line of the file is that record as JSON and a newline;    *)
(* once the file is closed there is one record per key, all newkeys        *)
(* distinct.                                                               *)
(***************************************************************************)
C8_EmissionOrder ==
    /\ (file_opened \/ lines # <<>> \/ emitted # <<>>) =>
          StreamExhausted /\ pc # "open_json"
    /\ Len(lines) = Len(emitted)
    /\ Len(emitted) <= Len(FirstCreated(fed))
    /\ \A i \in 1..Len(emitted) :
          LET tokens == Split(emitted[i].clinvar_alleles, <<Plus>>)
              expected == {p[2] : p \in {q \in Range(fed) : q[1] = emitted[i].newkey}}
          IN  /\ emitted[i].newkey = FirstCreated(fed)[i]
              /\ Range(tokens) = expected
              /\ Len(tokens) = Cardinality(expected)
              /\ lines[i] = json_dumps(emitted[i]) \o <<Newline>>
    /\ pc \in {"write_table", "done"} =>
          /\ Len(emitted) = Len(FirstCreated(fed))
          /\ \A i, j \in 1..Len(emitted) :
                emitted[i].newkey = emitted[j].newkey => i = j

\* Two records were emitted; the key of the first was updated after the second
\* was created, and one of them joins two tokens.
C8_Witness ==
    /\ pc = "done"
    /\ Len(emitted) = 2
    /\ \E i \in 1..Len(fed) : \E j \in 1..(i - 1) :
          fed[i][1] = emitted[1].newkey /\ fed[j][1] = emitted[2].newkey
    /\ \E i \in 1..Len(emitted) : Plus \in Range(emitted[i].clinvar_alleles)

\* The record of a token: each schema name with the value at its position.
RecordOf(token) == [name \in SchemaNames |-> FieldOf(token, name)]

\* The records of tokens[k..] that must be kept, in order, repeats included.
RECURSIVE RecordsFrom(_, _)
RecordsFrom(tokens, k) ==
    IF k > Len(tokens) THEN <<>>
    ELSE (IF MustContribute(FieldOf(tokens[k], ConsequenceField))
          THEN <<RecordOf(tokens[k])>> ELSE <<>>)
         \o RecordsFrom(tokens, k + 1)

C10_AllOrNothing ==
    /\ pc = "aborted" =>
          /\ exc \in {"IndexError", "KeyError", "ValueError"}
          /\ ~file_opened
          /\ lines = <<>>
          /\ emitted = <<>>
          /\ ~table_written
    /\ file_opened => exc = "none" /\ StreamExhausted
    /\ pc \in {"write_table", "done"} =>
          /\ Len(lines) = Len(clinvar_dict)
          /\ KeysOf(clinvar_dict) = {p[1] : p \in Range(fed)}

\* The run ended on the last record the stream may hold, with entries in the map.
C10_Witness ==
    /\ pc = "aborted"
    /\ exc \in {"KeyError", "ValueError"}
    /\ Len(seen) = MaxVariants
    /\ clinvar_dict # <<>>

=============================================================================
